---- MODULE Spec2Model ----
(***************************************************************************)
(* The PDF question-answering application in its three variants:           *)
(*   "recruit_assist"  src/recruit_assist/main.py  SQLite cache, streaming  *)
(*   "src"             src/src/main.py             Modal Dict cache,        *)
(*                                                 streaming                *)
(*   "workshop"        src/workshop-1/main.py      in-memory UPLOADS,       *)
(*                                                 one-shot answers         *)
(* One behaviour runs one variant.  Requests are sessions of one asyncio    *)
(* event loop: the code between two suspension points (await / yield to the *)
(* transport) runs without interleaving.                                    *)
(*                                                                         *)
(* Text is a sequence of tokens; the tokens are prefix-free as strings, so  *)
(* str.startswith on the text is the prefix test on the token sequence.     *)
(***************************************************************************)
EXTENDS Integers, Sequences, FiniteSets, TLC

VARIABLES variant, pdf_texts_set, pdfs, pdf_texts, UPLOADS, interactions,
          next_uuid, running, kind, pc, req, pdf_text,
          accumulated_response_for_log, sent, produced, gen, result,
          bytes_read, extract_calls, written, disconnected, store_failed,
          answer

vars == <<variant, pdf_texts_set, pdfs, pdf_texts, UPLOADS, interactions,
          next_uuid, running, kind, pc, req, pdf_text,
          accumulated_response_for_log, sent, produced, gen, result,
          bytes_read, extract_calls, written, disconnected, store_failed,
          answer>>

\* ------------------------------------------------------------------ bounds
MaxSessions == 2
MaxChunks == 2

Sessions == 1..MaxSessions

\* ------------------------------------------------------------------ inputs
Variants == {"recruit_assist", "src", "workshop"}
Streaming == {"recruit_assist", "src"}

PDF_MIME == "application/pdf"
Queries == {"What does the cat do?"}

\* Uploaded bytes.  fitz opens a document only when it starts with "%" (37).
GoodBytes == <<37, 1>>
OtherBytes == <<37, 2>>
BadBytes == <<0, 1>>
PdfBinaries == {GoodBytes, OtherBytes, BadBytes}

None == [present |-> FALSE, content_type |-> "", filename |-> "", body |-> <<>>]
UploadFile(ct, fn, b) ==
    [present |-> TRUE, content_type |-> ct, filename |-> fn, body |-> b]
\* The uploads tried: every document as a PDF, one of them under a second
\* name, and one with another declared content type.
UploadFiles == {UploadFile(PDF_MIME, "a.pdf", b) : b \in PdfBinaries}
               \cup {UploadFile(PDF_MIME, "b.pdf", GoodBytes),
                     UploadFile("text/plain", "a.pdf", GoodBytes)}

\* The documents questions are asked about, uploaded before or not.
AskedAbout == {UploadFile(PDF_MIME, "a.pdf", b) : b \in {GoodBytes, OtherBytes}}

\* The handlers of the streaming variants test "not pdf_file", so None is an
\* input they are written for; the workshop handler takes an UploadFile.
UploadInputs(v) == IF v \in Streaming THEN UploadFiles \cup {None} ELSE UploadFiles

\* ------------------------------------------------------------------ text
StartsWith(s, p) == Len(s) >= Len(p) /\ SubSeq(s, 1, Len(p)) = p

RECURSIVE Concat(_)
Concat(ss) == IF ss = <<>> THEN <<>> ELSE Head(ss) \o Concat(Tail(ss))

\* "Error during LLM generation:" and "Error:" as token sequences
PREFIX_LLM == <<"Error", " during LLM generation", ":">>
PREFIX_ERROR == <<"Error", ":">>
CAUSE == " boom"

\* What the remote stream can deliver: an object without text, or a text.
Chunk(t) == [has_text |-> TRUE, text |-> t]
NoText == [has_text |-> FALSE, text |-> <<>>]
ChunkTexts == {<<>>, <<"Partial">>, <<"Error", ":", " none found">>}
RemoteChunks == {NoText} \cup {Chunk(t) : t \in ChunkTexts}

\* ------------------------------------------------------------------ upload
\* mutant of ValidUpload: the declared content type is not tested
ValidUploadAnyType(v, f) == f.present

\* upload_pdf's gate; the workshop handler tests the content type only
ValidUpload(v, f) ==
    IF v \in Streaming
    THEN ~(~f.present \/ f.content_type # PDF_MIME)
    ELSE f.content_type = PDF_MIME

\* hashlib.sha256(pdf_binary).digest(): a digest that no two of the model's
\* byte strings share
RECURSIVE sha256(_)
sha256(b) == IF b = <<>> THEN 7 ELSE (sha256(Tail(b)) * 257 + Head(b) + 1) % 65521

\* str(uuid.UUID(bytes=pdf_hash[:16]))
pdf_id_of(b) == 100000 + sha256(b)

\* fitz.open(stream=pdf_bytes, filetype="pdf") raises on malformed bytes
Malformed(b) == b = <<>> \/ b[1] # 37

\* the pages' plain texts, in page order
PageTexts(b) ==
    IF b = GoodBytes THEN << <<"Cats sit. ">>, <<"Dogs run.">> >>
    ELSE IF b = OtherBytes THEN << <<"Birds fly.">> >>
    ELSE << >>

extract_text_from_pdf(b) == Concat(PageTexts(b))

PdfIds == {pdf_id_of(b) : b \in PdfBinaries}

\* mutants of exists: the row is looked up under another key; the result of
\* the lookup is dropped
exists_other_key(table, id) == \E i \in DOMAIN table : table[i].id = id + 1
exists_never(table, id) == FALSE

\* c.execute("SELECT 1 FROM pdfs WHERE id = ?"); c.fetchone()
exists(table, id) == \E i \in DOMAIN table : table[i].id = id

\* c.execute("SELECT text FROM pdfs WHERE id = ?"); c.fetchone()
fetchone(table, id) ==
    LET hits == {i \in DOMAIN table : table[i].id = id}
    IN  table[CHOOSE i \in hits : \A j \in hits : i <= j]

Row(id, fn, text) == [id |-> id, filename |-> fn, text |-> text]

\* ------------------------------------------------------------------ answers
\* mutant of ErrorSentinel: the except branch yields an empty text
ErrorSentinelEmpty(v) == <<>>

\* the chunk get_answer yields when the remote call raises
ErrorSentinel(v) ==
    IF v = "recruit_assist"
    THEN <<"Error", " during LLM generation">>
    ELSE <<"Error", " during LLM generation", ":", CAUSE>>

\* get_answer forwards a remote chunk when it has a non-empty text
HasText(c) == c.has_text /\ c.text # <<>>

\* event_generator forwards what get_answer yields when it is truthy
Truthy(t) == t # <<>>

\* mutant of Accumulate: the chunk replaces what was accumulated
AccumulateLast(acc, chunk) == chunk

\* accumulated_response_for_log += chunk
Accumulate(acc, chunk) == acc \o chunk

\* the suspension points of event_generator's streaming loop: the message
\* yield and the sleep
InStream(at) == at \in {"yield_message", "sleep"}

\* mutant of RunsFinally: a cancellation at the sleep skips the finally block
RunsFinallyAtYieldOnly(v, at) == at = "yield_message"

\* the places where event_generator is suspended inside the try whose finally
\* block logs the interaction: the streaming loop and, in src, where one try
\* spans the lookup too, the error yields of the lookup
RunsFinally(v, at) == InStream(at) \/ (v = "src" /\ at = "yield_error")

\* mutant of Forwarded: every remote chunk is forwarded
ForwardedAlways(c) == TRUE

\* a remote chunk reaches the client when get_answer yields it (it has a
\* non-empty text) and event_generator finds what it got truthy
Forwarded(c) == HasText(c) /\ Truthy(c.text)

\* mutants of ShouldLog: no prefix test; the "Error:" test is missing
ShouldLogNonEmpty(acc) == acc # <<>>
ShouldLogOnePrefix(acc) == acc # <<>> /\ ~StartsWith(acc, PREFIX_LLM)

\* the two tests of the finally block of event_generator
ShouldLog(acc) ==
    /\ acc # <<>>
    /\ ~StartsWith(acc, PREFIX_LLM)
    /\ ~StartsWith(acc, PREFIX_ERROR)

\* mutant of LogReference: another id than the session's is logged
LogReferenceOther(v, r) == r.pdf_id + 1

\* the first argument event_generator passes to log_interaction
LogReference(v, r) == IF v = "recruit_assist" THEN r.pdf_id ELSE r.pdf_filename

\* How log_interaction ends when the store fails at `fail`:
\*   "ok" the row is committed, "absorbed" no row and a normal return,
\*   "raised" no row and an exception leaves log_interaction.
LogFailures == {"none", "connect", "execute", "commit"}
LogOutcome(v, fail) ==
    IF fail = "none" THEN "ok"
    ELSE IF v = "recruit_assist"
         THEN (IF fail = "connect" THEN "raised" ELSE "absorbed")
         ELSE "raised"

Interaction(id, ref, q, resp) ==
    [id |-> id, pdf_reference |-> ref, query |-> q, response |-> resp]

\* server-sent events
sse_message(data) == [event |-> "message", data |-> data]
sse_error(data) == [event |-> "error", data |-> data]
CLOSE_EVENT == [event |-> "close", data |-> <<>>]

\* ------------------------------------------------------------------ state
\* the dict the workshop get_answer returns; NoAnswer before it has returned
AnswerDict(ok, t) == [success |-> ok, text |-> t]
NoAnswer == AnswerDict(FALSE, <<>>)

NoRequest == [pdf_file |-> None, query |-> "", pdf_id |-> 0, pdf_filename |-> ""]
NotFound == [found |-> FALSE, text |-> <<>>]
Found(t) == [found |-> TRUE, text |-> t]

RECURSIVE SumLen(_, _)
SumLen(f, S) ==
    IF S = {} THEN 0
    ELSE LET x == CHOOSE y \in S : TRUE IN Len(f[x]) + SumLen(f, S \ {x})

\* the remote service still has chunks to deliver in this run
RemoteBudget == SumLen(produced, Sessions) < MaxChunks

Init ==
    /\ variant \in Variants
    /\ pdf_texts_set \in (IF variant = "src" THEN BOOLEAN ELSE {FALSE})
    /\ pdfs = <<>>
    /\ pdf_texts = <<>>
    /\ UPLOADS = <<>>
    /\ interactions = <<>>
    /\ next_uuid = 1
    /\ running = 0
    /\ kind = [s \in Sessions |-> "none"]
    /\ pc = [s \in Sessions |-> "idle"]
    /\ req = [s \in Sessions |-> NoRequest]
    /\ pdf_text = [s \in Sessions |-> NotFound]
    /\ accumulated_response_for_log = [s \in Sessions |-> <<>>]
    /\ sent = [s \in Sessions |-> <<>>]
    /\ produced = [s \in Sessions |-> <<>>]
    /\ gen = [s \in Sessions |-> "open"]
    /\ result = [s \in Sessions |-> "pending"]
    /\ bytes_read = [s \in Sessions |-> FALSE]
    /\ extract_calls = [b \in PdfBinaries |-> 0]
    /\ written = [s \in Sessions |-> <<>>]
    /\ disconnected = [s \in Sessions |-> FALSE]
    /\ store_failed = [s \in Sessions |-> FALSE]
    /\ answer = [s \in Sessions |-> NoAnswer]

\* The SQLite file and the Modal Dict outlive the process: a process
\* can start with the cache empty or with the record an earlier run stored
\* for a document.
KeptPdfs ==
    {<<>>, <<Row(pdf_id_of(GoodBytes), "a.pdf", extract_text_from_pdf(GoodBytes))>>}
KeptPdfTexts ==
    {<<>>, pdf_id_of(GoodBytes) :> extract_text_from_pdf(GoodBytes)}

InitKept ==
    /\ variant \in Variants
    /\ pdf_texts_set \in (IF variant = "src" THEN BOOLEAN ELSE {FALSE})
    /\ pdfs \in (IF variant = "recruit_assist" THEN KeptPdfs ELSE {<<>>})
    /\ pdf_texts \in (IF pdf_texts_set THEN KeptPdfTexts ELSE {<<>>})
    /\ UPLOADS = <<>>
    /\ interactions = <<>>
    /\ next_uuid = 1
    /\ running = 0
    /\ kind = [s \in Sessions |-> "none"]
    /\ pc = [s \in Sessions |-> "idle"]
    /\ req = [s \in Sessions |-> NoRequest]
    /\ pdf_text = [s \in Sessions |-> NotFound]
    /\ accumulated_response_for_log = [s \in Sessions |-> <<>>]
    /\ sent = [s \in Sessions |-> <<>>]
    /\ produced = [s \in Sessions |-> <<>>]
    /\ gen = [s \in Sessions |-> "open"]
    /\ result = [s \in Sessions |-> "pending"]
    /\ bytes_read = [s \in Sessions |-> FALSE]
    /\ extract_calls = [b \in PdfBinaries |-> 0]
    /\ written = [s \in Sessions |-> <<>>]
    /\ disconnected = [s \in Sessions |-> FALSE]
    /\ store_failed = [s \in Sessions |-> FALSE]
    /\ answer = [s \in Sessions |-> NoAnswer]

\* Requests are numbered in the order they arrive.
Arrives(s) == pc[s] = "idle" /\ (IF s = 1 THEN TRUE ELSE pc[s - 1] # "idle")

stores == <<pdfs, pdf_texts, UPLOADS, interactions>>
stream_vars == <<pdf_text, accumulated_response_for_log, sent, produced, gen,
                 written, disconnected>>

\* Bookkeeping of the run, not state of the program: store_failed[s] tells
\* whether the last store access of session s met a failure.
Faulted(s, fail) == store_failed' = [store_failed EXCEPT ![s] = fail # "none"]

\* ------------------------------------------------------------------ upload_pdf
\* upload_pdf, lines up to the first return: the request is rejected
UploadRejected(s) ==
    /\ Arrives(s)
    /\ \E f \in UploadInputs(variant) :
        /\ ~ValidUpload(variant, f)
        /\ req' = [req EXCEPT ![s].pdf_file = f]
    /\ kind' = [kind EXCEPT ![s] = "upload"]
    /\ result' = [result EXCEPT ![s] = "validation"]
    /\ pc' = [pc EXCEPT ![s] = "done"]
    /\ UNCHANGED <<variant, answer, pdf_texts_set, stores, next_uuid, running,
                   stream_vars, bytes_read, extract_calls, store_failed>>

\* upload_pdf up to `await pdf_file.read()`; the workshop variant draws its
\* uuid4 before it reads
UploadAccepted(s) ==
    /\ Arrives(s)
    /\ \E f \in UploadInputs(variant) :
        /\ ValidUpload(variant, f)
        /\ req' = [req EXCEPT ![s].pdf_file = f,
                              ![s].pdf_id = IF variant = "workshop"
                                            THEN next_uuid ELSE 0]
    /\ next_uuid' = IF variant = "workshop" THEN next_uuid + 1 ELSE next_uuid
    /\ kind' = [kind EXCEPT ![s] = "upload"]
    /\ pc' = [pc EXCEPT ![s] = "read"]
    /\ UNCHANGED <<variant, answer, pdf_texts_set, stores, running, stream_vars,
                   result, bytes_read, extract_calls, store_failed>>

Finish(s, r) ==
    /\ result' = [result EXCEPT ![s] = r]
    /\ pc' = [pc EXCEPT ![s] = "done"]

Extracted(b) == extract_calls' = [extract_calls EXCEPT ![b] = @ + 1]

\* recruit_assist upload_pdf from the read to the response: the hash and the
\* try/except/finally around the SQLite calls, which do not suspend
UploadFailures == {"none", "connect", "select", "insert", "commit"}
UploadSqlite(s) ==
    /\ variant = "recruit_assist"
    /\ pc[s] = "read"
    /\ running = 0
    /\ bytes_read' = [bytes_read EXCEPT ![s] = TRUE]
    /\ LET f == req[s].pdf_file
           pdf_binary == f.body
           pdf_id == pdf_id_of(pdf_binary)
       IN /\ req' = [req EXCEPT ![s].pdf_id = pdf_id]
          /\ \E fail \in UploadFailures :
              /\ Faulted(s, fail)
              /\ \/ /\ fail = "connect"
                    /\ Finish(s, "exception")
                    /\ UNCHANGED <<pdfs, extract_calls>>
                 \/ /\ fail = "select"
                    /\ Finish(s, "error")
                    /\ UNCHANGED <<pdfs, extract_calls>>
                 \/ /\ fail = "none"
                    /\ exists(pdfs, pdf_id)
                    /\ Finish(s, "article")
                    /\ UNCHANGED <<pdfs, extract_calls>>
                 \/ /\ fail \in {"none", "insert", "commit"}
                    /\ ~exists(pdfs, pdf_id)
                    /\ Extracted(pdf_binary)
                    /\ IF Malformed(pdf_binary)
                       THEN Finish(s, "exception") /\ UNCHANGED pdfs
                       ELSE IF fail # "none"
                       THEN Finish(s, "error") /\ UNCHANGED pdfs
                       ELSE /\ pdfs' = Append(pdfs,
                                    Row(pdf_id, f.filename,
                                        extract_text_from_pdf(pdf_binary)))
                            /\ Finish(s, "article")
    /\ UNCHANGED <<variant, answer, pdf_texts_set, pdf_texts, UPLOADS, interactions,
                   next_uuid, running, kind, stream_vars>>

\* src upload_pdf from the read to the response, on the Modal Dict
DictFailures == {"none", "contains", "put"}
UploadDict(s) ==
    /\ variant = "src"
    /\ pc[s] = "read"
    /\ running = 0
    /\ bytes_read' = [bytes_read EXCEPT ![s] = TRUE]
    /\ LET pdf_binary == req[s].pdf_file.body
           pdf_id == pdf_id_of(pdf_binary)
       IN /\ req' = [req EXCEPT ![s].pdf_id = pdf_id]
          /\ IF ~pdf_texts_set
             THEN /\ Finish(s, "unavailable")
                  /\ UNCHANGED <<pdf_texts, extract_calls, store_failed>>
             ELSE \E fail \in DictFailures :
                  /\ Faulted(s, fail)
                  /\ \/ /\ fail = "contains"
                        /\ Finish(s, "exception")
                        /\ UNCHANGED <<pdf_texts, extract_calls>>
                     \/ /\ fail = "none"
                        /\ pdf_id \in DOMAIN pdf_texts
                        /\ Finish(s, "article")
                        /\ UNCHANGED <<pdf_texts, extract_calls>>
                     \/ /\ fail \in {"none", "put"}
                        /\ pdf_id \notin DOMAIN pdf_texts
                        /\ Extracted(pdf_binary)
                        /\ IF Malformed(pdf_binary) \/ fail = "put"
                           THEN Finish(s, "exception") /\ UNCHANGED pdf_texts
                           ELSE /\ pdf_texts' =
                                     (pdf_id :> extract_text_from_pdf(pdf_binary))
                                     @@ pdf_texts
                                /\ Finish(s, "article")
    /\ UNCHANGED <<variant, answer, pdf_texts_set, pdfs, UPLOADS, interactions,
                   next_uuid, running, kind, stream_vars>>

\* workshop upload_pdf from the read to the response
UploadWorkshop(s) ==
    /\ variant = "workshop"
    /\ pc[s] = "read"
    /\ running = 0
    /\ bytes_read' = [bytes_read EXCEPT ![s] = TRUE]
    /\ LET f == req[s].pdf_file
       IN /\ Extracted(f.body)
          /\ IF Malformed(f.body)
             THEN Finish(s, "exception") /\ UNCHANGED UPLOADS
             ELSE /\ UPLOADS' = (req[s].pdf_id :>
                                   [filename |-> f.filename,
                                    size_bytes |-> Len(f.body),
                                    content_type |-> f.content_type,
                                    text |-> extract_text_from_pdf(f.body)])
                                @@ UPLOADS
                  /\ Finish(s, "article")
    /\ UNCHANGED <<variant, answer, pdf_texts_set, pdfs, pdf_texts, interactions,
                   next_uuid, running, kind, req, stream_vars, store_failed>>

\* ------------------------------------------------------------------ answer_stream
upload_vars == <<bytes_read, extract_calls>>

Send(s, e) == sent' = [sent EXCEPT ![s] = Append(@, e)]

\* answer_stream: the request arrives and the handler returns the EventStream
\* around event_generator(), which has not started
AnswerStream(s) ==
    /\ variant \in Streaming
    /\ Arrives(s)
    /\ \E q \in Queries, f \in AskedAbout :
        req' = [req EXCEPT ![s] = [pdf_file |-> None, query |-> q,
                                   pdf_id |-> pdf_id_of(f.body),
                                   pdf_filename |-> f.filename]]
    /\ kind' = [kind EXCEPT ![s] = "answer"]
    /\ pc' = [pc EXCEPT ![s] = "lookup"]
    /\ UNCHANGED <<variant, answer, pdf_texts_set, stores, next_uuid, running,
                   stream_vars, result, upload_vars, store_failed>>

\* mutant of Selected: the WHERE clause is dropped
SelectedAny(table, id) ==
    IF table = <<>> THEN NotFound ELSE Found(table[1].text)

\* c.execute("SELECT text FROM pdfs WHERE id = ?", (pdf_id,)); c.fetchone();
\* `if result: pdf_text = result[0]`
Selected(table, id) ==
    IF exists(table, id) THEN Found(fetchone(table, id).text) ELSE NotFound

\* recruit_assist event_generator, the first try/except/finally: the text of
\* pdf_id is read from the pdfs table
LookupFailures == {"none", "connect", "execute"}
LookupSqlite(s) ==
    /\ variant = "recruit_assist"
    /\ pc[s] = "lookup"
    /\ running = 0
    /\ \E fail \in LookupFailures :
        /\ Faulted(s, fail)
        /\ IF fail # "none"
              THEN /\ Send(s, sse_error(<<"Error retrieving PDF text from database">>))
                /\ pc' = [pc EXCEPT ![s] = "yield_error"]
                /\ UNCHANGED <<pdf_text, running>>
           ELSE IF Selected(pdfs, req[s].pdf_id).found
           THEN /\ pdf_text' = [pdf_text EXCEPT
                                   ![s] = Selected(pdfs, req[s].pdf_id)]
                /\ pc' = [pc EXCEPT ![s] = "remote"]
                /\ running' = s
                /\ UNCHANGED sent
           ELSE /\ Send(s, sse_error(<<"Error", ":", " Could not find PDF text">>))
                /\ pc' = [pc EXCEPT ![s] = "yield_error"]
                /\ UNCHANGED <<pdf_text, running>>
    /\ UNCHANGED <<variant, answer, pdf_texts_set, stores, next_uuid, kind, req,
                   accumulated_response_for_log, produced, gen, written,
                   disconnected, result, upload_vars>>

\* src event_generator up to the async for: the text of pdf_id is read from
\* the Modal Dict.  An exception other than KeyError passes the finally
\* block, which yields the close event before the exception goes on.
DictLookupFailures == {"none", "getitem"}
LookupDict(s) ==
    /\ variant = "src"
    /\ pc[s] = "lookup"
    /\ running = 0
    /\ IF ~pdf_texts_set
       THEN /\ Send(s, sse_message(<<"Error", ":", " PDF text retrieval failed.">>))
            /\ pc' = [pc EXCEPT ![s] = "yield_error"]
            /\ UNCHANGED <<pdf_text, running, result, store_failed>>
       ELSE \E fail \in DictLookupFailures :
            /\ Faulted(s, fail)
            /\ IF fail # "none"
               THEN /\ Send(s, CLOSE_EVENT)
                    /\ pc' = [pc EXCEPT ![s] = "yield_close"]
                    /\ result' = [result EXCEPT ![s] = "raising"]
                    /\ UNCHANGED <<pdf_text, running>>
               ELSE IF req[s].pdf_id \in DOMAIN pdf_texts
               THEN /\ pdf_text' = [pdf_text EXCEPT
                                       ![s] = Found(pdf_texts[req[s].pdf_id])]
                    /\ pc' = [pc EXCEPT ![s] = "remote"]
                    /\ running' = s
                    /\ UNCHANGED <<sent, result>>
               ELSE /\ Send(s, sse_error(<<"Error", ":", " Could not find PDF text">>))
                    /\ pc' = [pc EXCEPT ![s] = "yield_error"]
                    /\ UNCHANGED <<pdf_text, running, result>>
    /\ UNCHANGED <<variant, answer, pdf_texts_set, stores, next_uuid, kind, req,
                   accumulated_response_for_log, produced, gen, written,
                   disconnected, upload_vars>>

\* The generator is resumed after the error event and returns.  In
\* recruit_assist the return leaves the generator; in src it passes the
\* finally block, which finds nothing accumulated and yields the close event.
ReturnAfterError(s) ==
    /\ pc[s] = "yield_error"
    /\ running = 0
    /\ IF variant = "recruit_assist"
       THEN /\ Finish(s, "ended")
            /\ UNCHANGED sent
       ELSE /\ Send(s, CLOSE_EVENT)
            /\ pc' = [pc EXCEPT ![s] = "yield_close"]
            /\ UNCHANGED result
    /\ UNCHANGED <<variant, answer, pdf_texts_set, stores, next_uuid, running, kind,
                   req, pdf_text, accumulated_response_for_log, produced, gen,
                   written, disconnected, upload_vars, store_failed>>

\* get_answer receives a chunk of the remote stream (the session holds the
\* event loop in the for loop).  A chunk with text is yielded to
\* event_generator, which accumulates it and yields the message event; a
\* chunk without text is skipped and the loop goes on.
RemoteChunk(s) ==
    /\ pc[s] = "remote"
    /\ running = s
    /\ gen[s] = "open"
    /\ RemoteBudget
    /\ \E c \in RemoteChunks :
        /\ produced' = [produced EXCEPT ![s] = Append(@, c)]
        /\ IF Forwarded(c)
           THEN /\ accumulated_response_for_log' =
                       [accumulated_response_for_log EXCEPT ![s] = Accumulate(@, c.text)]
                /\ Send(s, sse_message(c.text))
                /\ pc' = [pc EXCEPT ![s] = "yield_message"]
                /\ running' = 0
           ELSE UNCHANGED <<accumulated_response_for_log, sent, pc, running>>
    /\ UNCHANGED <<variant, answer, pdf_texts_set, stores, next_uuid, kind, req,
                   pdf_text, gen, written, disconnected, result, upload_vars, store_failed>>

\* the remote call raises, when it is made or in the middle of the stream:
\* get_answer yields the error sentinel, which is accumulated and forwarded
RemoteRaises(s) ==
    /\ pc[s] = "remote"
    /\ running = s
    /\ gen[s] = "open"
    /\ gen' = [gen EXCEPT ![s] = "failed"]
    /\ accumulated_response_for_log' =
           [accumulated_response_for_log EXCEPT
               ![s] = Accumulate(@, ErrorSentinel(variant))]
    /\ Send(s, sse_message(ErrorSentinel(variant)))
    /\ pc' = [pc EXCEPT ![s] = "yield_message"]
    /\ running' = 0
    /\ UNCHANGED <<variant, answer, pdf_texts_set, stores, next_uuid, kind, req,
                   pdf_text, produced, written, disconnected, result,
                   upload_vars, store_failed>>

\* the remote stream is exhausted, or get_answer is resumed after its
\* sentinel: get_answer returns and the async for ends
RemoteEnds(s) ==
    /\ pc[s] = "remote"
    /\ running = s
    /\ gen' = [gen EXCEPT ![s] = IF @ = "open" THEN "ended" ELSE @]
    /\ pc' = [pc EXCEPT ![s] = "finalize"]
    /\ UNCHANGED <<variant, answer, pdf_texts_set, stores, next_uuid, running, kind,
                   req, pdf_text, accumulated_response_for_log, sent, produced,
                   written, disconnected, result, upload_vars, store_failed>>

\* event_generator is resumed after a message event: await asyncio.sleep(0.01)
Sleep(s) ==
    /\ pc[s] = "yield_message"
    /\ running = 0
    /\ pc' = [pc EXCEPT ![s] = "sleep"]
    /\ UNCHANGED <<variant, answer, pdf_texts_set, stores, next_uuid, running, kind,
                   req, stream_vars, result, upload_vars, store_failed>>

\* the sleep is over: the async for asks get_answer for the next chunk
Wake(s) ==
    /\ pc[s] = "sleep"
    /\ running = 0
    /\ pc' = [pc EXCEPT ![s] = "remote"]
    /\ running' = s
    /\ UNCHANGED <<variant, answer, pdf_texts_set, stores, next_uuid, kind, req,
                   stream_vars, result, upload_vars, store_failed>>

\* log_interaction(ref, query, response) with the store failing at `fail`
log_interaction(s, response, fail) ==
    /\ Faulted(s, fail)
    /\ IF LogOutcome(variant, fail) = "ok"
          THEN LET row == Interaction(next_uuid, LogReference(variant, req[s]),
                                   req[s].query, response)
            IN /\ interactions' = Append(interactions, row)
               /\ written' = [written EXCEPT ![s] = Append(@, row)]
               /\ next_uuid' = next_uuid + 1
       ELSE UNCHANGED <<interactions, written, next_uuid>>

\* the finally block of event_generator after the async for has ended
Finalize(s) ==
    /\ pc[s] = "finalize"
    /\ running = s
    /\ running' = 0
    /\ IF ShouldLog(accumulated_response_for_log[s])
       THEN \E fail \in LogFailures :
            /\ log_interaction(s, accumulated_response_for_log[s], fail)
            /\ IF LogOutcome(variant, fail) = "raised"
               THEN Finish(s, "exception") /\ UNCHANGED sent
               ELSE /\ Send(s, CLOSE_EVENT)
                    /\ pc' = [pc EXCEPT ![s] = "yield_close"]
                    /\ UNCHANGED result
       ELSE /\ Send(s, CLOSE_EVENT)
            /\ pc' = [pc EXCEPT ![s] = "yield_close"]
            /\ UNCHANGED <<interactions, written, next_uuid, result, store_failed>>
    /\ UNCHANGED <<variant, answer, pdf_texts_set, pdfs, pdf_texts, UPLOADS, kind, req,
                   pdf_text, accumulated_response_for_log, produced, gen,
                   disconnected, upload_vars>>

\* the generator is resumed after the close event and ends
Closed(s) ==
    /\ pc[s] = "yield_close"
    /\ running = 0
    /\ Finish(s, IF result[s] = "raising" THEN "exception" ELSE "ended")
    /\ UNCHANGED <<variant, answer, pdf_texts_set, stores, next_uuid, running, kind,
                   req, stream_vars, upload_vars, store_failed>>

\* The client goes away while the generator is suspended.  The generator is
\* cancelled or closed where it stands: inside the streaming try its finally
\* block runs, and the close event it yields reaches nobody.  The session
\* ends "cancelled" when it was in its streaming loop, "closed" otherwise.
Disconnect(s) ==
    /\ pc[s] \in {"yield_message", "sleep", "yield_error", "yield_close"}
    /\ running = 0
    /\ disconnected' = [disconnected EXCEPT ![s] = TRUE]
    /\ IF RunsFinally(variant, pc[s])
          /\ ShouldLog(accumulated_response_for_log[s])
       THEN \E fail \in LogFailures :
                log_interaction(s, accumulated_response_for_log[s], fail)
       ELSE UNCHANGED <<interactions, written, next_uuid, store_failed>>
    /\ Finish(s, IF InStream(pc[s]) THEN "cancelled" ELSE "closed")
    /\ UNCHANGED <<variant, answer, pdf_texts_set, pdfs, pdf_texts, UPLOADS, running,
                   kind, req, pdf_text, accumulated_response_for_log, sent,
                   produced, gen, upload_vars>>

\* ------------------------------------------------------------------ answer_question
\* the ids the workshop form can carry: uuids handed out by upload_pdf or not
AskedIds == 1..2

\* what generate_content can return as response.text
ResponseTexts == {<<"Partial">>, <<"Error", ":", " none found">>}

\* workshop answer_question up to `await asyncio.to_thread(...)` inside
\* get_answer: the upload is looked up and the remote call is handed to a
\* thread
AnswerQuestion(s) ==
    /\ variant = "workshop"
    /\ Arrives(s)
    /\ kind' = [kind EXCEPT ![s] = "question"]
    /\ \E q \in Queries, id \in AskedIds :
        IF id \in DOMAIN UPLOADS
        THEN /\ req' = [req EXCEPT ![s] = [pdf_file |-> None, query |-> q,
                                          pdf_id |-> id,
                                          pdf_filename |-> UPLOADS[id].filename]]
             /\ pdf_text' = [pdf_text EXCEPT ![s] = Found(UPLOADS[id].text)]
             /\ pc' = [pc EXCEPT ![s] = "to_thread"]
             /\ UNCHANGED result
        ELSE /\ req' = [req EXCEPT ![s] = [pdf_file |-> None, query |-> q,
                                          pdf_id |-> id, pdf_filename |-> ""]]
             /\ Finish(s, "not_found")
             /\ UNCHANGED pdf_text
    /\ UNCHANGED <<variant, answer, pdf_texts_set, stores, next_uuid, running,
                   accumulated_response_for_log, sent, produced, gen, written,
                   disconnected, upload_vars, store_failed>>

\* the thread has finished: get_answer returns its dict, with the response
\* text or with str(e), and answer_question logs answer["text"] and returns
\* the article
GetAnswer(s) ==
    /\ variant = "workshop"
    /\ pc[s] = "to_thread"
    /\ \E a \in {AnswerDict(TRUE, t) : t \in ResponseTexts}
                 \cup {AnswerDict(FALSE, <<CAUSE>>)} :
        /\ answer' = [answer EXCEPT ![s] = a]
        /\ \E fail \in LogFailures :
            /\ log_interaction(s, a.text, fail)
            /\ Finish(s, IF LogOutcome(variant, fail) = "ok"
                         THEN "article" ELSE "exception")
    /\ UNCHANGED <<variant, pdf_texts_set, pdfs, pdf_texts, UPLOADS, running,
                   kind, req, pdf_text, accumulated_response_for_log, sent,
                   produced, gen, disconnected, upload_vars>>

\* ------------------------------------------------------------------ system
Next ==
    \E s \in Sessions :
        \/ UploadRejected(s)
        \/ UploadAccepted(s)
        \/ UploadSqlite(s)
        \/ UploadDict(s)
        \/ UploadWorkshop(s)
        \/ AnswerStream(s)
        \/ LookupSqlite(s)
        \/ LookupDict(s)
        \/ ReturnAfterError(s)
        \/ RemoteChunk(s)
        \/ RemoteRaises(s)
        \/ RemoteEnds(s)
        \/ Sleep(s)
        \/ Wake(s)
        \/ Finalize(s)
        \/ Closed(s)
        \/ Disconnect(s)
        \/ AnswerQuestion(s)
        \/ GetAnswer(s)

Spec == Init /\ [][Next]_vars

\* the same program started on a cache an earlier run may have filled
SpecKept == InitKept /\ [][Next]_vars

\* ------------------------------------------------------------------ claims
Answers == {s \in Sessions : kind[s] = "answer"}
Uploads == {s \in Sessions : kind[s] = "upload"}

Count(events, name) == Cardinality({i \in DOMAIN events : events[i].event = name})

RECURSIVE Texts(_)
Texts(chunks) ==
    IF chunks = <<>> THEN <<>>
    ELSE IF Head(chunks).has_text /\ Head(chunks).text # <<>>
         THEN <<Head(chunks).text>> \o Texts(Tail(chunks))
         ELSE Texts(Tail(chunks))

RECURSIVE Messages(_)
Messages(events) ==
    IF events = <<>> THEN <<>>
    ELSE IF Head(events).event = "message"
         THEN <<Head(events).data>> \o Messages(Tail(events))
         ELSE Messages(Tail(events))

IsSentinel(t) == StartsWith(t, <<"Error", " during LLM generation">>)

\* the session ran to its end with the client connected
Completed(s) == s \in Answers /\ pc[s] = "done" /\ ~disconnected[s]

CloseOnceAtEnd(events) ==
    /\ Count(events, "close") = 1
    /\ events[Len(events)].event = "close"

\* C1: a session whose lookup succeeded sends the close event exactly once,
\* as its last event, whatever the remote stream did.
C1_CloseOnceWhenFound ==
    \A s \in Sessions :
        Completed(s) /\ pdf_text[s].found => CloseOnceAtEnd(sent[s])

\* C2: a session whose lookup failed sends an error event and then the close
\* event, exactly once.
C2_CloseOnceWhenNotFound ==
    \A s \in Sessions :
        Completed(s) /\ ~pdf_text[s].found
        => /\ Len(sent[s]) = 2
           /\ sent[s][1].event \in {"error", "message"}
           /\ sent[s][2].event = "close"

\* C3: when the remote stream raises after a non-empty chunk, the client gets
\* the chunks and then the error sentinel, and the session writes no
\* Interaction Record.
C3_NoRecordAfterPartial ==
    \A s \in Sessions :
        Completed(s) /\ gen[s] = "failed" /\ Texts(produced[s]) # <<>>
        => /\ Messages(sent[s]) = Texts(produced[s]) \o <<ErrorSentinel(variant)>>
           /\ written[s] = <<>>

\* C4: when the remote call fails before any chunk, the sentinel is the only
\* chunk forwarded, the accumulated response counts as an error response, and
\* the session writes no Interaction Record.
C4_SentinelOnlyNotLogged ==
    \A s \in Sessions :
        Completed(s) /\ gen[s] = "failed" /\ Texts(produced[s]) = <<>>
        => /\ Len(Messages(sent[s])) = 1
           /\ IsSentinel(Messages(sent[s])[1])
           /\ ~ShouldLog(accumulated_response_for_log[s])
           /\ written[s] = <<>>

IsErrorText(t) ==
    \/ StartsWith(t, <<"Error", ":">>)
    \/ StartsWith(t, <<"Error", " during LLM generation", ":">>)

\* C5 as claimed: every remote stream that ends normally is forwarded whole
\* and leaves exactly one Interaction Record holding the answer and the query.
C5_OneRecordOnNormalEnd ==
    \A s \in Sessions :
        Completed(s) /\ gen[s] = "ended"
        => /\ Concat(Messages(sent[s])) = Concat(Texts(produced[s]))
           /\ Len(written[s]) = 1
           /\ written[s][1].response = Concat(Texts(produced[s]))
           /\ written[s][1].query = req[s].query

\* C5 as amended: a remote stream that ends normally is forwarded whole; the
\* session writes exactly one Interaction Record (response the concatenation,
\* query verbatim) when the concatenation is non-empty, does not begin with
\* "Error:" or "Error during LLM generation:" and the log store does not fail,
\* and writes none otherwise.
C5_RecordOnNormalEnd ==
    \A s \in Sessions :
        s \in Answers /\ gen[s] = "ended" /\ pc[s] \in {"yield_close", "done"}
        => LET whole == Concat(Texts(produced[s]))
           IN /\ Concat(Messages(sent[s])) = whole
              /\ accumulated_response_for_log[s] = whole
              /\ IF whole # <<>> /\ ~IsErrorText(whole) /\ ~store_failed[s]
                 THEN /\ Len(written[s]) = 1
                      /\ written[s][1].response = whole
                      /\ written[s][1].query = req[s].query
                      /\ \E i \in DOMAIN interactions : interactions[i] = written[s][1]
                 ELSE written[s] = <<>>

C5_Witness ==
    \E s \in Sessions :
        /\ s \in Answers /\ gen[s] = "ended" /\ pc[s] = "done"
        /\ Len(Texts(produced[s])) >= 2
        /\ Len(written[s]) = 1
        /\ written[s][1].response = <<"Partial", "Partial">>

\* a step keeps the Interaction Records written so far
KeepsRecords ==
    variant \in Streaming
    => /\ Len(interactions') >= Len(interactions)
       /\ SubSeq(interactions', 1, Len(interactions)) = interactions

HasRecordFor(id) ==
    \/ \E i \in DOMAIN pdfs : pdfs[i].id = id
    \/ id \in DOMAIN pdf_texts

RecordsFor(id) ==
    IF variant = "recruit_assist"
    THEN Cardinality({i \in DOMAIN pdfs : pdfs[i].id = id})
    ELSE IF id \in DOMAIN pdf_texts THEN 1 ELSE 0

\* the step in which an upload of the hash-keyed variants gets its bytes and
\* answers: a cache read when the bytes have a record, and one extraction
\* when the step creates the record
UploadStepReadsCache ==
    \A s \in Sessions :
        variant \in Streaming /\ pc[s] = "read" /\ pc'[s] = "done"
        => LET b == req[s].pdf_file.body
           IN IF HasRecordFor(pdf_id_of(b))
              THEN /\ extract_calls' = extract_calls
                   /\ pdfs' = pdfs
                   /\ pdf_texts' = pdf_texts
              ELSE HasRecordFor(pdf_id_of(b))'
                   => extract_calls' = [extract_calls EXCEPT ![b] = @ + 1]

\* C7: in the hash-keyed variants an upload of bytes that already have a
\* Document Record extracts nothing and changes no record, whatever its
\* filename; the upload that creates a record calls the extraction once.
C7_RepeatUploadReadsCache == [][UploadStepReadsCache]_vars

C7_Witness ==
    \E s \in Sessions, i \in DOMAIN pdfs :
        /\ s \in Uploads /\ pc[s] = "done" /\ result[s] = "article"
        /\ req[s].pdf_file.filename = "b.pdf"
        /\ pdfs[i].id = req[s].pdf_id
        /\ pdfs[i].filename = "a.pdf"
        /\ extract_calls[req[s].pdf_file.body] = 1

\* two uploads of the same well-formed bytes, with the store working for both
SamePdfPair(s, t) ==
    /\ s \in Uploads /\ t \in Uploads /\ s # t
    /\ variant \in Streaming
    /\ variant = "src" => pdf_texts_set
    /\ ValidUpload(variant, req[s].pdf_file) /\ ValidUpload(variant, req[t].pdf_file)
    /\ req[s].pdf_file.body = req[t].pdf_file.body
    /\ req[s].pdf_file.body[1] = 37
    /\ ~store_failed[s] /\ ~store_failed[t]

\* C8: two uploads of identical bytes, in whatever order their steps run,
\* never leave more than one Document Record for the document id; when both
\* have answered there is exactly one and both callers got the upload page.
C8_ConcurrentUploadsOneRecord ==
    \A s \in Sessions, t \in Sessions :
        SamePdfPair(s, t)
        => /\ RecordsFor(pdf_id_of(req[s].pdf_file.body)) <= 1
           /\ pc[s] = "done" => result[s] = "article"
           /\ pc[s] = "done" /\ pc[t] = "done"
              => RecordsFor(pdf_id_of(req[s].pdf_file.body)) = 1

\* the later request has answered while the earlier one, which arrived first,
\* still awaits its bytes: the two requests overlap
C8_Witness ==
    \E s \in Sessions, t \in Sessions :
        /\ SamePdfPair(s, t)
        /\ s < t
        /\ pc[s] = "read"
        /\ pc[t] = "done" /\ result[t] = "article"
        /\ RecordsFor(pdf_id_of(req[s].pdf_file.body)) = 1

NotAPdf(f) == ~f.present \/ f.content_type # "application/pdf"

\* the step that rejects an upload touches no store and extracts nothing
RejectionChangesNothing ==
    \A s \in Sessions :
        kind[s] = "none" /\ kind'[s] = "upload" /\ NotAPdf(req'[s].pdf_file)
        => /\ UNCHANGED <<pdfs, pdf_texts, UPLOADS, interactions>>
           /\ UNCHANGED extract_calls

C10_LogFailureAbsorbed ==
    \A s \in Sessions :
        Completed(s) /\ pdf_text[s].found /\ store_failed[s]
        => /\ result[s] = "ended"
           /\ Count(sent[s], "close") = 1

\* C11: an upload whose bytes the extraction cannot parse, with the store
\* working, is answered with the generic processing error, not with an
\* exception, and leaves no Document Record for its document id.
C11_ExtractionFailureReported ==
    \A s \in Sessions :
        /\ s \in Uploads /\ pc[s] = "done" /\ bytes_read[s]
        /\ Malformed(req[s].pdf_file.body)
        /\ extract_calls[req[s].pdf_file.body] > 0
        /\ ~store_failed[s]
        => /\ result[s] = "error"
           /\ RecordsFor(req[s].pdf_id) = 0

\* every Document Record holds the whole text of the bytes it is keyed by
RecordsComplete ==
    \A i \in DOMAIN pdfs :
        \E b \in PdfBinaries :
            pdfs[i].id = pdf_id_of(b) /\ pdfs[i].text = extract_text_from_pdf(b)

\* C12: an upload of well-formed bytes that meets a store failure (connect,
\* lookup, insert or commit) is answered with the generic error message,
\* without an exception, and the store holds no partial Document Record.
C12_StoreFailureReported ==
    \A s \in Sessions :
        /\ s \in Uploads /\ pc[s] = "done" /\ bytes_read[s]
        /\ ~Malformed(req[s].pdf_file.body)
        /\ store_failed[s]
        => /\ result[s] = "error"
           /\ RecordsComplete
           /\ RecordsFor(req[s].pdf_id) <= 1

\* the upload got its page, which carries the document id
GotId(s) == s \in Uploads /\ pc[s] = "done" /\ result[s] = "article"

\* C14: two uploads get the same document id exactly when their bytes are
\* the same, whatever their filenames and whatever was uploaded before.
C14_IdIsFunctionOfBytes ==
    \A s \in Sessions, t \in Sessions :
        GotId(s) /\ GotId(t)
        => (req[s].pdf_id = req[t].pdf_id
            <=> req[s].pdf_file.body = req[t].pdf_file.body)

\* C15: in the workshop variant a question whose remote call raised is
\* answered without an exception and leaves no Interaction Record.
C15_NoRecordWhenRemoteRaises ==
    \A s \in Sessions :
        /\ kind[s] = "question" /\ pc[s] = "done" /\ pdf_text[s].found
        /\ ~answer[s].success
        /\ ~store_failed[s]
        => /\ result[s] = "article"
           /\ written[s] = <<>>

\* the client left session s while it was in its streaming loop
CutOff(s) == s \in Answers /\ disconnected[s] /\ result[s] = "cancelled"

\* the records of session s are what the finalize step writes for acc
FinalizedOnce(s, acc) ==
    IF ShouldLog(acc)
    THEN /\ Len(written[s]) = 1
         /\ written[s][1].response = acc
         /\ written[s][1].query = req[s].query
         /\ \E i \in DOMAIN interactions : interactions[i] = written[s][1]
    ELSE written[s] = <<>>

\* from the step in which the client leaves, the session asks the remote
\* service for nothing more
NoRetry ==
    \A s \in Sessions :
        disconnected'[s]
        => /\ produced'[s] = produced[s]
           /\ gen'[s] = gen[s]
           /\ pc'[s] = "done"

C16_RemoteWaitYieldsLoop ==
    \A s \in Sessions, t \in Sessions :
        s # t /\ pc[s] = "remote" /\ gen[s] = "open"
        => /\ pc[t] = "read" => ENABLED (UploadSqlite(t) \/ UploadDict(t))
           /\ pc[t] = "lookup" => ENABLED (LookupSqlite(t) \/ LookupDict(t))

\* the data chunks session s has sent
Data(s) == Messages(sent[s])

\* what the remote service has delivered to session s, the sentinel included
Delivered(s) ==
    Texts(produced[s])
    \o (IF gen[s] = "failed" THEN <<ErrorSentinel(variant)>> ELSE <<>>)

\* C17: at every point of a session that found its text, the data chunks sent
\* are the non-empty chunks the remote service has delivered, in their order
\* and with none held back, and the accumulator is their concatenation.
C17_InOrderOneAtATime ==
    \A s \in Sessions :
        s \in Answers /\ pdf_text[s].found
        => /\ Data(s) = Delivered(s)
           /\ accumulated_response_for_log[s] = Concat(Data(s))

C17_Witness ==
    \E s \in Sessions :
        /\ s \in Answers /\ pdf_text[s].found
        /\ Data(s) = << <<"Partial">>, <<"Error", ":", " none found">> >>
        /\ accumulated_response_for_log[s]
               = <<"Partial", "Error", ":", " none found">>

\* after the sentinel the session sends no data chunk and gets no remote chunk
NothingAfterSentinel ==
    \A s \in Sessions :
        gen[s] = "failed"
        => /\ Messages(sent'[s]) = Messages(sent[s])
           /\ produced'[s] = produced[s]
           /\ accumulated_response_for_log'[s] = accumulated_response_for_log[s]

\* C18: when the remote call raised, the sentinel is the last data chunk sent
\* and the only one of its kind, it ends the accumulator, nothing follows it,
\* and the session meets no exception but one of the log store.
C18_OneSentinelOnFailure ==
    /\ [](\A s \in Sessions :
            s \in Answers /\ gen[s] = "failed"
            => /\ Len(Data(s)) = Len(Texts(produced[s])) + 1
               /\ IsSentinel(Data(s)[Len(Data(s))])
               /\ \A i \in 1..(Len(Data(s)) - 1) : ~IsSentinel(Data(s)[i])
               /\ accumulated_response_for_log[s]
                      = Concat(Texts(produced[s])) \o Data(s)[Len(Data(s))]
               /\ result[s] = "exception" => store_failed[s])
    /\ [][NothingAfterSentinel]_vars

C18_Witness ==
    \E s \in Sessions :
        /\ s \in Answers /\ gen[s] = "failed" /\ pc[s] = "done"
        /\ result[s] = "ended"
        /\ Len(Data(s)) = 2
        /\ Data(s)[1] = <<"Partial">>

\* the step in which a chunk without text arrives changes nothing the client
\* or the log can see, and the session goes on waiting for the next chunk
SkipsEmptyChunk ==
    \A s \in Sessions :
        /\ Len(produced'[s]) = Len(produced[s]) + 1
        /\ LET c == produced'[s][Len(produced'[s])]
           IN ~c.has_text \/ c.text = <<>>
        => /\ sent'[s] = sent[s]
           /\ accumulated_response_for_log'[s] = accumulated_response_for_log[s]
           /\ interactions' = interactions
           /\ pc'[s] = "remote"
           /\ gen'[s] = "open"

\* C19: a remote chunk without text or with an empty text is not sent, leaves
\* the accumulator as it was, and the session goes on with the next chunk.
C19_EmptyChunkSkipped ==
    /\ [](\A s \in Sessions : \A i \in DOMAIN sent[s] :
            sent[s][i].event = "message" => sent[s][i].data # <<>>)
    /\ [][SkipsEmptyChunk]_vars

C19_Witness ==
    \E s \in Sessions :
        /\ Len(produced[s]) = 2
        /\ ~HasText(produced[s][1])
        /\ produced[s][2] = Chunk(<<"Partial">>)
        /\ Data(s) = << <<"Partial">> >>
        /\ accumulated_response_for_log[s] = <<"Partial">>

\* C20: every session whose remote stream ended normally after a non-empty
\* chunk, with the log store working, has written exactly one Interaction
\* Record, whatever the text of the answer.
C20_RecordWhateverTheText ==
    \A s \in Sessions :
        /\ Completed(s) /\ variant \in Streaming
        /\ gen[s] = "ended"
        /\ Texts(produced[s]) # <<>>
        /\ ~store_failed[s]
        => Len(written[s]) = 1

\* the session asked the remote model for nothing and logged nothing
RemoteUntouched(s) ==
    /\ pc[s] \in {"yield_error", "done"}
    /\ produced[s] = <<>>
    /\ gen[s] = "open"
    /\ accumulated_response_for_log[s] = <<>>
    /\ Messages(sent[s]) = <<>>
    /\ written[s] = <<>>

\* the step that ends a lookup without a text takes no hold of the event
\* loop for a remote call and leaves the interaction log as it was
FailedLookupStep ==
    \A s \in Sessions :
        /\ variant = "recruit_assist"
        /\ pc[s] = "lookup" /\ pc'[s] # "lookup"
        /\ (store_failed'[s]
            \/ ~(\E i \in DOMAIN pdfs : pdfs[i].id = req[s].pdf_id))
        => /\ pc'[s] = "yield_error"
           /\ running' = running
           /\ interactions' = interactions
           /\ ~pdf_text'[s].found

\* C21: in the SQLite-backed variant a session past its lookup whose pdf_id
\* has no Document Record, or whose lookup met a store failure, has asked
\* the remote model for nothing and has written no Interaction Record.
C21_NoRemoteWithoutDocument ==
    /\ [](\A s \in Sessions :
            /\ variant = "recruit_assist"
            /\ s \in Answers /\ pc[s] # "lookup"
            /\ (~pdf_text[s].found
                \/ ~(\E i \in DOMAIN pdfs : pdfs[i].id = req[s].pdf_id))
            => RemoteUntouched(s))
    /\ [][FailedLookupStep]_vars

C21_Witness ==
    \E s \in Sessions :
        /\ variant = "recruit_assist"
        /\ s \in Answers /\ pc[s] = "done" /\ ~disconnected[s]
        /\ pdfs # <<>>
        /\ ~(\E i \in DOMAIN pdfs : pdfs[i].id = req[s].pdf_id)
        /\ ~store_failed[s]
        /\ Count(sent[s], "error") = 1
        /\ interactions = <<>>

\* a step deletes and changes no Document Record
KeepsDocuments ==
    /\ Len(pdfs') >= Len(pdfs)
    /\ SubSeq(pdfs', 1, Len(pdfs)) = pdfs

\* C22: in the SQLite-backed variant every Interaction Record refers to the
\* id of a Document Record of the pdfs table, and no step deletes or changes
\* a Document Record.
C22_RecordsReferToDocuments ==
    /\ [](variant = "recruit_assist"
          => \A i \in DOMAIN interactions :
                \E j \in DOMAIN pdfs :
                    pdfs[j].id = interactions[i].pdf_reference)
    /\ [][KeepsDocuments]_vars

C22_Witness ==
    \E s \in Sessions, t \in Sessions :
        /\ variant = "recruit_assist"
        /\ t \in Uploads /\ result[t] = "article"
        /\ s \in Answers /\ pc[s] = "done"
        /\ Len(interactions) = 1
        /\ interactions[1].pdf_reference = req[t].pdf_id
        /\ interactions[1].pdf_reference = req[s].pdf_id

====
